---- MODULE Spec2Model ----
(***************************************************************************)
(* Symbolic-algebra engine of src/rep/MathExpr.hpp: the AST nodes held by  *)
(* shared pointers, the evaluator, toString, the differentiator with its   *)
(* local simplifier, and the shunting-yard parser parseExpression.         *)
(*                                                                         *)
(* Numbers.  T is long double (Real) or std::complex<long double>.  The    *)
(* model computes + - * / and integer powers exactly over the rationals;   *)
(* a value is [re, im] with rational components <<n, d>> (im = 0 in the    *)
(* Real domain).  Results of sin/cos/exp/ln and of non-integer powers are  *)
(* symbolic values [fn, of], except the exact points sin 0 = 0, cos 0 = 1, *)
(* exp 0 = 1, ln 1 = 0.  A comparison the model cannot decide on a         *)
(* symbolic value makes eval end in the outcome "Undetermined".  The       *)
(* values +inf, -inf and NaN of long double arise from 0 to a negative     *)
(* power and follow IEEE 754 in + - * / and pow.                           *)
(*                                                                         *)
(* Text.  A std::string is a sequence of one-character strings.            *)
(***************************************************************************)
EXTENDS Integers, Sequences, FiniteSets, TLC

(***************************************************************************)
(* Character classes of <cctype> in the "C" locale.                        *)
(***************************************************************************)
Digits == <<"0", "1", "2", "3", "4", "5", "6", "7", "8", "9">>

isdigit(c) == \E k \in 1..Len(Digits) : Digits[k] = c

DigitVal(c) == (CHOOSE k \in 1..Len(Digits) : Digits[k] = c) - 1

isalpha(c) ==
    c \in {"a", "b", "c", "d", "e", "f", "g", "h", "i", "j", "k", "l", "m",
           "n", "o", "p", "q", "r", "s", "t", "u", "v", "w", "x", "y", "z",
           "A", "B", "C", "D", "E", "F", "G", "H", "I", "J", "K", "L", "M",
           "N", "O", "P", "Q", "R", "S", "T", "U", "V", "W", "X", "Y", "Z"}

isspace(c) == c \in {" ", "\t", "\n", "\r"}

(***************************************************************************)
(* Exact rationals <<n, d>>, d > 0, in lowest terms.                       *)
(***************************************************************************)
Abs(n) == IF n < 0 THEN -n ELSE n

RECURSIVE GCD(_, _)
GCD(a, b) == IF b = 0 THEN a ELSE GCD(b, a % b)

Rat(n, d) ==
    LET s == IF d < 0 THEN -1 ELSE 1
        g == GCD(Abs(n), Abs(d))
    IN  <<(s * n) \div g, (s * d) \div g>>

RInt(n) == <<n, 1>>
RAdd(a, b) == Rat(a[1] * b[2] + b[1] * a[2], a[2] * b[2])
RSub(a, b) == Rat(a[1] * b[2] - b[1] * a[2], a[2] * b[2])
RMul(a, b) == Rat(a[1] * b[1], a[2] * b[2])
RDiv(a, b) == Rat(a[1] * b[2], a[2] * b[1])
RLeq(a, b) == a[1] * b[2] <= b[1] * a[2]

(***************************************************************************)
(* Values of the numeric domain T.                                         *)
(***************************************************************************)
Num(re, im) == [re |-> re, im |-> im]
Sym(f, args) == [fn |-> f, of |-> args]
IsNum(v) == DOMAIN v = {"re", "im"}
NumT(n) == Num(RInt(n), RInt(0))
ImagUnit == Num(RInt(0), RInt(1))
IsReal(v) == IsNum(v) /\ v.im = RInt(0)

\* the values of long double that are no numbers: +inf, -inf and NaN
Inf == Sym("inf", <<>>)
NegInf == Sym("-inf", <<>>)
NaN == Sym("nan", <<>>)
IsSpecial(v) == v \in {Inf, NegInf, NaN}
IsInfinite(v) == v \in {Inf, NegInf}

\* both operands are real or special, and one of them is special
HasSpecial(a, b) ==
    /\ IsReal(a) \/ IsSpecial(a)
    /\ IsReal(b) \/ IsSpecial(b)
    /\ IsSpecial(a) \/ IsSpecial(b)

\* the sign of a real number or an infinity
SignOf(v) ==
    IF v = Inf THEN 1
    ELSE IF v = NegInf THEN -1
    ELSE IF v.re[1] > 0 THEN 1
    ELSE IF v.re[1] < 0 THEN -1
    ELSE 0

Signed(s) == IF s > 0 THEN Inf ELSE NegInf

Negate(v) ==
    IF v = Inf THEN NegInf
    ELSE IF v = NegInf THEN Inf
    ELSE IF v = NaN THEN NaN
    ELSE Num(RSub(RInt(0), v.re), RSub(RInt(0), v.im))

\* IEEE 754 arithmetic when an operand is special
AddSpecial(a, b) ==
    IF NaN \in {a, b} \/ {a, b} = {Inf, NegInf} THEN NaN
    ELSE IF Inf \in {a, b} THEN Inf
    ELSE NegInf

MulSpecial(a, b) ==
    IF NaN \in {a, b} THEN NaN
    ELSE IF SignOf(a) * SignOf(b) = 0 THEN NaN
    ELSE Signed(SignOf(a) * SignOf(b))

\* for b # 0
DivSpecial(a, b) ==
    IF NaN \in {a, b} THEN NaN
    ELSE IF IsInfinite(a) /\ IsInfinite(b) THEN NaN
    ELSE IF IsInfinite(a) THEN Signed(SignOf(a) * SignOf(b))
    ELSE Num(RInt(0), RInt(0))

\* std::pow when an operand is special
PowSpecial(a, b) ==
    IF b = Num(RInt(0), RInt(0)) \/ a = Num(RInt(1), RInt(0))
    THEN Num(RInt(1), RInt(0))
    ELSE IF NaN \in {a, b} THEN NaN
    ELSE IF IsInfinite(b)
    THEN IF IsReal(a) /\ Abs(a.re[1]) = a.re[2] THEN Num(RInt(1), RInt(0))
         ELSE LET big == IsInfinite(a) \/ Abs(a.re[1]) > a.re[2] IN
              IF (b = Inf) = big THEN Inf ELSE Num(RInt(0), RInt(0))
    ELSE IF SignOf(b) < 0 THEN Num(RInt(0), RInt(0))
    ELSE IF a = NegInf /\ b.re[2] = 1 /\ b.re[1] % 2 = 1 THEN NegInf
    ELSE Inf

VAdd(a, b) ==
    IF IsNum(a) /\ IsNum(b)
    THEN Num(RAdd(a.re, b.re), RAdd(a.im, b.im))
    ELSE IF HasSpecial(a, b) THEN AddSpecial(a, b)
    ELSE Sym("+", <<a, b>>)

VSub(a, b) ==
    IF IsNum(a) /\ IsNum(b)
    THEN Num(RSub(a.re, b.re), RSub(a.im, b.im))
    ELSE IF HasSpecial(a, b) THEN AddSpecial(a, Negate(b))
    ELSE Sym("-", <<a, b>>)

VMul(a, b) ==
    IF IsNum(a) /\ IsNum(b)
    THEN Num(RSub(RMul(a.re, b.re), RMul(a.im, b.im)),
             RAdd(RMul(a.re, b.im), RMul(a.im, b.re)))
    ELSE IF HasSpecial(a, b) THEN MulSpecial(a, b)
    ELSE Sym("*", <<a, b>>)

\* a / b for b # 0
VDiv(a, b) ==
    IF IsReal(a) /\ IsReal(b) THEN Num(RDiv(a.re, b.re), RInt(0))
    ELSE IF IsNum(a) /\ IsNum(b)
    THEN LET m == RAdd(RMul(b.re, b.re), RMul(b.im, b.im))
         IN  Num(RDiv(RAdd(RMul(a.re, b.re), RMul(a.im, b.im)), m),
                 RDiv(RSub(RMul(a.im, b.re), RMul(a.re, b.im)), m))
    ELSE IF HasSpecial(a, b) THEN DivSpecial(a, b)
    ELSE Sym("/", <<a, b>>)

RECURSIVE IntPow(_, _)
IntPow(a, k) == IF k = 0 THEN NumT(1) ELSE VMul(a, IntPow(a, k - 1))

\* std::pow: exact for an integer exponent and for base 1, symbolic otherwise;
\* 0 to a negative power is +inf (the model has no negative zero)
VPow(a, b) ==
    IF a = NumT(1) /\ IsNum(b) THEN NumT(1)
    ELSE IF HasSpecial(a, b) THEN PowSpecial(a, b)
    ELSE IF a = NumT(0) /\ IsReal(b) /\ ~ RLeq(b.re, RInt(0)) THEN NumT(0)
    ELSE IF a = NumT(0) /\ IsReal(b) /\ b.re[1] < 0 THEN Inf
    ELSE IF IsNum(a) /\ IsReal(b) /\ b.re[2] = 1
    THEN IF b.re[1] >= 0 THEN IntPow(a, b.re[1])
         ELSE VDiv(NumT(1), IntPow(a, -b.re[1]))
    ELSE Sym("pow", <<a, b>>)

VSin(a) == IF a = NumT(0) THEN NumT(0) ELSE Sym("sin", <<a>>)
VCos(a) == IF a = NumT(0) THEN NumT(1) ELSE Sym("cos", <<a>>)
VExp(a) == IF a = NumT(0) THEN NumT(1) ELSE Sym("exp", <<a>>)
\* std::log(0) is -inf
VLog(a) == IF a = NumT(1) THEN NumT(0) ELSE Sym("ln", <<a>>)

(***************************************************************************)
(* Comparisons with zero.  A symbolic value sin/cos/exp/ln of a number is  *)
(* never zero (the exact zero points are folded above), nor is a product   *)
(* or quotient of non-zero values; anything else is "unknown".             *)
(***************************************************************************)
RECURSIVE KnownNonZero(_)
KnownNonZero(v) ==
    IF IsNum(v) THEN v # NumT(0)
    ELSE IF IsSpecial(v) THEN TRUE
    ELSE IF v.fn \in {"sin", "cos", "exp", "ln"} THEN IsNum(v.of[1])
    ELSE IF v.fn = "pow" THEN IsNum(v.of[1]) /\ IsNum(v.of[2])
    ELSE IF v.fn \in {"*", "/"} THEN KnownNonZero(v.of[1]) /\ KnownNonZero(v.of[2])
    ELSE FALSE

\* v == T(0.)
EqZero(v) ==
    IF IsNum(v) THEN (IF v = NumT(0) THEN "yes" ELSE "no")
    ELSE IF KnownNonZero(v) THEN "no" ELSE "unknown"

\* v == T(1)
EqOne(v) ==
    IF IsNum(v) THEN (IF v = NumT(1) THEN "yes" ELSE "no")
    ELSE IF IsSpecial(v) THEN "no"
    ELSE IF v.fn \in {"sin", "cos", "exp", "ln"} /\ IsNum(v.of[1]) THEN "no"
    ELSE IF v.fn = "pow" /\ IsNum(v.of[1]) /\ IsNum(v.of[2]) THEN "no"
    ELSE "unknown"

\* v <= T(0) for a real v
LeqZero(v) ==
    IF IsNum(v) THEN (IF RLeq(v.re, RInt(0)) THEN "yes" ELSE "no")
    ELSE IF IsSpecial(v) THEN (IF v = NegInf THEN "yes" ELSE "no")
    ELSE IF ~ (Len(v.of) = 1 /\ IsReal(v.of[1])) THEN "unknown"
    ELSE LET q == v.of[1].re IN
         CASE v.fn = "exp" -> "no"
           [] v.fn = "ln" -> IF RLeq(q, RInt(1)) THEN "yes" ELSE "no"
           [] v.fn = "sin" ->
                IF RLeq(RInt(0), q) /\ RLeq(q, RInt(3)) THEN "no"
                ELSE IF RLeq(RInt(-3), q) /\ RLeq(q, RInt(0)) THEN "yes"
                ELSE "unknown"
           [] v.fn = "cos" ->
                IF RLeq(RInt(-1), q) /\ RLeq(q, RInt(1)) THEN "no" ELSE "unknown"
           [] OTHER -> "unknown"

(***************************************************************************)
(* The AST.  A std::shared_ptr<Node<T>> is an index into the heap h, the   *)
(* sequence of all nodes allocated so far; make_shared appends.            *)
(***************************************************************************)
BinaryTypes == {"Add", "Subtract", "Multiply", "Divide", "Power"}
FunctionTypes == {"Sin", "Cos", "Ln", "Exp"}

ConstantNode(val) == [type |-> "Constant", value |-> val]
VariableNode(var) == [type |-> "Variable", name |-> var]
BinaryOperationNode(op, left, right) ==
    [type |-> op, leftOperand |-> left, rightOperand |-> right]
FunctionNode(funcType, arg) == [type |-> funcType, argument |-> arg]

\* every operation on the heap returns the new heap, the pointer it yields and
\* the what() of the exception it threw ("" when it returned)
Ret(h, p) == [h |-> h, p |-> p, err |-> ""]
Raise(h, msg) == [h |-> h, p |-> 0, err |-> msg]

make_shared(h, node) == Ret(Append(h, node), Len(h) + 1)

nodeTypeToString(type) ==
    CASE type = "Constant" -> <<"C", "o", "n", "s", "t">>
      [] type = "Variable" -> <<"V", "a", "r">>
      [] type = "Add" -> <<"+">>
      [] type = "Subtract" -> <<"-">>
      [] type = "Multiply" -> <<"*">>
      [] type = "Divide" -> <<"/">>
      [] type = "Power" -> <<"^">>
      [] type = "Negate" -> <<"-">>
      [] type = "Sin" -> <<"s", "i", "n">>
      [] type = "Cos" -> <<"c", "o", "s">>
      [] type = "Ln" -> <<"l", "n">>
      [] type = "Exp" -> <<"e", "x", "p">>
      [] OTHER -> <<"U", "n", "k", "n", "o", "w", "n">>

(***************************************************************************)
(* eval.  The result is [ok |-> TRUE, v] or [ok |-> FALSE, err]; err is    *)
(* the what() of the std::runtime_error thrown.  vars is a function from   *)
(* names to values.                                                        *)
(***************************************************************************)
Ok(v) == [ok |-> TRUE, v |-> v]
Throw(msg) == [ok |-> FALSE, err |-> msg]

\* variant: the binding map consulted before the special case for "i"
VariableNode_eval_lookupFirst(T, name, vars) ==
    IF name \in DOMAIN vars THEN Ok(vars[name])
    ELSE IF T = "Complex" /\ name = <<"i">> THEN Ok(ImagUnit)
    ELSE Throw("Variable not found")

VariableNode_eval(T, name, vars) ==
    IF T = "Complex" /\ name = <<"i">> THEN Ok(ImagUnit)
    ELSE IF name \notin DOMAIN vars THEN Throw("Variable not found")
    ELSE Ok(vars[name])

\* variant: Divide without the test of the right operand
BinaryOperationNode_apply_unchecked(type, leftVal, rightVal) ==
    CASE type = "Add" -> Ok(VAdd(leftVal, rightVal))
      [] type = "Subtract" -> Ok(VSub(leftVal, rightVal))
      [] type = "Multiply" -> Ok(VMul(leftVal, rightVal))
      [] type = "Divide" ->
           IF EqZero(rightVal) = "no" THEN Ok(VDiv(leftVal, rightVal))
           ELSE Ok(Sym("inf", <<leftVal, rightVal>>))
      [] type = "Power" -> Ok(VPow(leftVal, rightVal))
      [] OTHER -> Throw("Invalid binary operation")

BinaryOperationNode_apply(type, leftVal, rightVal) ==
    CASE type = "Add" -> Ok(VAdd(leftVal, rightVal))
      [] type = "Subtract" -> Ok(VSub(leftVal, rightVal))
      [] type = "Multiply" -> Ok(VMul(leftVal, rightVal))
      [] type = "Divide" ->
           IF EqZero(rightVal) = "yes" THEN Throw("Division by zero")
           ELSE IF EqZero(rightVal) = "unknown" THEN Throw("Undetermined")
           ELSE Ok(VDiv(leftVal, rightVal))
      [] type = "Power" -> Ok(VPow(leftVal, rightVal))
      [] OTHER -> Throw("Invalid binary operation")

\* variant: the domain test of Ln made in every domain
FunctionNode_apply_anyDomain(T, type, argVal) ==
    CASE type = "Sin" -> Ok(VSin(argVal))
      [] type = "Cos" -> Ok(VCos(argVal))
      [] type = "Exp" -> Ok(VExp(argVal))
      [] type = "Ln" ->
           IF LeqZero(argVal) = "yes" THEN Throw("Ln domain error")
           ELSE IF LeqZero(argVal) = "unknown" THEN Throw("Undetermined")
           ELSE Ok(VLog(argVal))
      [] OTHER -> Throw("Unsupported function")

FunctionNode_apply(T, type, argVal) ==
    CASE type = "Sin" -> Ok(VSin(argVal))
      [] type = "Cos" -> Ok(VCos(argVal))
      [] type = "Exp" -> Ok(VExp(argVal))
      [] type = "Ln" ->
           IF T = "Complex" THEN Ok(VLog(argVal))
           ELSE IF LeqZero(argVal) = "yes" THEN Throw("Ln domain error")
           ELSE IF LeqZero(argVal) = "unknown" THEN Throw("Undetermined")
           ELSE Ok(VLog(argVal))
      [] OTHER -> Throw("Unsupported function")

RECURSIVE eval(_, _, _, _)
eval(T, h, p, vars) ==
    LET n == h[p] IN
    CASE n.type = "Constant" -> Ok(n.value)
      [] n.type = "Variable" -> VariableNode_eval(T, n.name, vars)
      [] n.type \in BinaryTypes ->
           LET leftVal == eval(T, h, n.leftOperand, vars) IN
           IF ~ leftVal.ok THEN leftVal
           ELSE LET rightVal == eval(T, h, n.rightOperand, vars) IN
                IF ~ rightVal.ok THEN rightVal
                ELSE BinaryOperationNode_apply(n.type, leftVal.v, rightVal.v)
      [] OTHER ->
           LET argVal == eval(T, h, n.argument, vars) IN
           IF ~ argVal.ok THEN argVal
           ELSE FunctionNode_apply(T, n.type, argVal.v)

(***************************************************************************)
(* toString.  std::to_string(long double) is sprintf("%Lf"): the value     *)
(* rounded to six decimals.  A symbolic constant prints as "#".            *)
(***************************************************************************)
RECURSIVE DecDigits(_)
DecDigits(n) ==
    IF n < 10 THEN <<Digits[n + 1]>>
    ELSE Append(DecDigits(n \div 10), Digits[(n % 10) + 1])

RECURSIVE PadLeft(_, _)
PadLeft(s, width) == IF Len(s) >= width THEN s ELSE PadLeft(<<"0">> \o s, width)

to_string(q) ==
    LET whole == Abs(q[1]) \div q[2]
        rest == Abs(q[1]) % q[2]
        micro == (2 * rest * 1000000 + q[2]) \div (2 * q[2])
        carry == IF micro = 1000000 THEN 1 ELSE 0
    IN  (IF q[1] < 0 THEN <<"-">> ELSE <<>>)
        \o DecDigits(whole + carry) \o <<".">>
        \o PadLeft(DecDigits(micro % 1000000), 6)

complexToString(c) ==
    <<"(">> \o to_string(c.re) \o <<",">> \o to_string(c.im) \o <<")">>

ConstantNode_toString(T, value) ==
    IF ~ IsNum(value) THEN <<"#">>
    ELSE IF T = "Complex" THEN complexToString(value)
    ELSE to_string(value.re)

RECURSIVE toString(_, _, _)
toString(T, h, p) ==
    LET n == h[p] IN
    CASE n.type = "Constant" -> ConstantNode_toString(T, n.value)
      [] n.type = "Variable" -> n.name
      [] n.type \in BinaryTypes ->
           <<"(">> \o toString(T, h, n.leftOperand) \o nodeTypeToString(n.type)
           \o toString(T, h, n.rightOperand) \o <<")">>
      [] OTHER ->
           nodeTypeToString(n.type) \o <<"(">> \o toString(T, h, n.argument)
           \o <<")">>

(***************************************************************************)
(* copy: a structural deep copy in fresh nodes.                            *)
(***************************************************************************)
RECURSIVE copy(_, _)
copy(h, p) ==
    LET n == h[p] IN
    CASE n.type = "Constant" -> make_shared(h, ConstantNode(n.value))
      [] n.type = "Variable" -> make_shared(h, VariableNode(n.name))
      [] n.type \in BinaryTypes ->
           LET l == copy(h, n.leftOperand)
               r == copy(l.h, n.rightOperand)
           IN  make_shared(r.h, BinaryOperationNode(n.type, l.p, r.p))
      [] OTHER ->
           LET a == copy(h, n.argument)
           IN  make_shared(a.h, FunctionNode(n.type, a.p))

(***************************************************************************)
(* The simplifier.                                                         *)
(***************************************************************************)
isOne(h, node) == h[node].type = "Constant" /\ EqOne(h[node].value) = "yes"

isZero(h, node) == h[node].type = "Constant" /\ EqZero(h[node].value) = "yes"

BothConstant(h, left, right) ==
    h[left].type = "Constant" /\ h[right].type = "Constant"

simplifyAdd(h, left, right) ==
    IF isZero(h, left) THEN Ret(h, right)
    ELSE IF isZero(h, right) THEN Ret(h, left)
    ELSE IF BothConstant(h, left, right)
    THEN make_shared(h, ConstantNode(VAdd(h[left].value, h[right].value)))
    ELSE make_shared(h, BinaryOperationNode("Add", left, right))

\* variant: without the rule for a zero operand
simplifyMultiply_noZero(h, left, right) ==
    IF isOne(h, left) THEN Ret(h, right)
    ELSE IF isOne(h, right) THEN Ret(h, left)
    ELSE IF BothConstant(h, left, right)
    THEN make_shared(h, ConstantNode(VMul(h[left].value, h[right].value)))
    ELSE make_shared(h, BinaryOperationNode("Multiply", left, right))

simplifyMultiply(h, left, right) ==
    IF isOne(h, left) THEN Ret(h, right)
    ELSE IF isOne(h, right) THEN Ret(h, left)
    ELSE IF isZero(h, left) \/ isZero(h, right)
    THEN make_shared(h, ConstantNode(NumT(0)))
    ELSE IF BothConstant(h, left, right)
    THEN make_shared(h, ConstantNode(VMul(h[left].value, h[right].value)))
    ELSE make_shared(h, BinaryOperationNode("Multiply", left, right))

simplifyDivide(h, left, right) ==
    IF isOne(h, right) THEN Ret(h, left)
    ELSE IF isZero(h, left) THEN make_shared(h, ConstantNode(NumT(0)))
    ELSE IF BothConstant(h, left, right)
    THEN IF EqZero(h[right].value) = "yes" THEN Raise(h, "Division by zero")
         ELSE make_shared(h, ConstantNode(VDiv(h[left].value, h[right].value)))
    ELSE make_shared(h, BinaryOperationNode("Divide", left, right))

simplifyPower(h, base, exponent) ==
    IF isOne(h, exponent) THEN Ret(h, base)
    ELSE IF isZero(h, exponent) THEN make_shared(h, ConstantNode(NumT(1)))
    ELSE IF BothConstant(h, base, exponent)
    THEN make_shared(h, ConstantNode(VPow(h[base].value, h[exponent].value)))
    ELSE make_shared(h, BinaryOperationNode("Power", base, exponent))

(***************************************************************************)
(* diff.  A function body is run on a frame f: the heap, the local         *)
(* variables (name -> pointer) and the exception thrown so far; a           *)
(* statement after a throw is not executed.  Only simplifyDivide throws.   *)
(***************************************************************************)
Bind(f, dst, r) ==
    IF r.err # "" THEN [f EXCEPT !.h = r.h, !.err = r.err]
    ELSE [f EXCEPT !.h = r.h, !.loc = (dst :> r.p) @@ @]

\* auto dst = src->copy()
LetCopy(f, dst, src) ==
    IF f.err # "" THEN f ELSE Bind(f, dst, copy(f.h, f.loc[src]))

\* auto dst = std::make_shared<ConstantNode<T>>(val)
LetConstant(f, dst, val) ==
    IF f.err # "" THEN f ELSE Bind(f, dst, make_shared(f.h, ConstantNode(val)))

\* auto dst = std::make_shared<FunctionNode<T>>(type, arg)
LetFunction(f, dst, type, arg) ==
    IF f.err # "" THEN f
    ELSE Bind(f, dst, make_shared(f.h, FunctionNode(type, f.loc[arg])))

LetAdd(f, dst, left, right) ==
    IF f.err # "" THEN f
    ELSE Bind(f, dst, simplifyAdd(f.h, f.loc[left], f.loc[right]))

LetMultiply(f, dst, left, right) ==
    IF f.err # "" THEN f
    ELSE Bind(f, dst, simplifyMultiply(f.h, f.loc[left], f.loc[right]))

LetDivide(f, dst, left, right) ==
    IF f.err # "" THEN f
    ELSE Bind(f, dst, simplifyDivide(f.h, f.loc[left], f.loc[right]))

LetPower(f, dst, base, exponent) ==
    IF f.err # "" THEN f
    ELSE Bind(f, dst, simplifyPower(f.h, f.loc[base], f.loc[exponent]))

\* return name
Return(f, name) ==
    IF f.err # "" THEN Raise(f.h, f.err) ELSE Ret(f.h, f.loc[name])

diffAdd(f) == Return(LetAdd(f, "result", "leftDeriv", "rightDeriv"), "result")

diffSubtract(f) ==
    LET f1 == LetConstant(f, "minusOne", NumT(-1))
        f2 == LetMultiply(f1, "negated", "minusOne", "rightDeriv")
        f3 == LetAdd(f2, "result", "leftDeriv", "negated")
    IN  Return(f3, "result")

diffMultiply(f) ==
    LET f1 == LetCopy(f, "rightCopy", "rightOperand")
        f2 == LetMultiply(f1, "term1", "leftDeriv", "rightCopy")
        f3 == LetCopy(f2, "leftCopy", "leftOperand")
        f4 == LetMultiply(f3, "term2", "leftCopy", "rightDeriv")
        f5 == LetAdd(f4, "result", "term1", "term2")
    IN  Return(f5, "result")

diffDivide(f) ==
    LET f1 == LetCopy(f, "rightCopy", "rightOperand")
        f2 == LetMultiply(f1, "product1", "leftDeriv", "rightCopy")
        f3 == LetConstant(f2, "minusOne", NumT(-1))
        f4 == LetCopy(f3, "leftCopy", "leftOperand")
        f5 == LetMultiply(f4, "product2", "leftCopy", "rightDeriv")
        f6 == LetMultiply(f5, "negated", "minusOne", "product2")
        f7 == LetAdd(f6, "numerator", "product1", "negated")
        f8 == LetCopy(f7, "rightCopy2", "rightOperand")
        f9 == LetConstant(f8, "two", NumT(2))
        f10 == LetPower(f9, "denominator", "rightCopy2", "two")
        f11 == LetDivide(f10, "result", "numerator", "denominator")
    IN  Return(f11, "result")

diffPower(f) ==
    LET f1 == LetCopy(f, "base", "leftOperand")
        f2 == LetCopy(f1, "exponent", "rightOperand")
        f3 == LetCopy(f2, "baseCopy1", "base")
        f4 == LetFunction(f3, "lnNode", "Ln", "baseCopy1")
        f5 == LetCopy(f4, "baseCopy2", "base")
        f6 == LetCopy(f5, "exponentCopy1", "exponent")
        f7 == LetPower(f6, "term1", "baseCopy2", "exponentCopy1")
        f8 == LetCopy(f7, "rightDerivCopy", "rightDeriv")
        f9 == LetMultiply(f8, "product1", "rightDerivCopy", "lnNode")
        f10 == LetCopy(f9, "exponentCopy2", "exponent")
        f11 == LetCopy(f10, "leftDerivCopy", "leftDeriv")
        f12 == LetCopy(f11, "baseCopy3", "base")
        f13 == LetDivide(f12, "quotient", "leftDerivCopy", "baseCopy3")
        f14 == LetMultiply(f13, "product2", "exponentCopy2", "quotient")
        f15 == LetAdd(f14, "term2", "product1", "product2")
        f16 == LetMultiply(f15, "result", "term1", "term2")
    IN  Return(f16, "result")

BinaryOperationNode_diff(h, n, leftDeriv, rightDeriv) ==
    LET f == [h |-> h, err |-> "",
              loc |-> [leftOperand |-> n.leftOperand,
                       rightOperand |-> n.rightOperand,
                       leftDeriv |-> leftDeriv, rightDeriv |-> rightDeriv]]
    IN  CASE n.type = "Add" -> diffAdd(f)
          [] n.type = "Subtract" -> diffSubtract(f)
          [] n.type = "Multiply" -> diffMultiply(f)
          [] n.type = "Divide" -> diffDivide(f)
          [] n.type = "Power" -> diffPower(f)
          [] OTHER -> Raise(h, "Unsupported binary operation for diff")

diffSin(f) ==
    LET f1 == LetCopy(f, "argCopy", "argument")
        f2 == LetFunction(f1, "cosNode", "Cos", "argCopy")
        f3 == LetMultiply(f2, "result", "cosNode", "argDeriv")
    IN  Return(f3, "result")

diffCos(f) ==
    LET f1 == LetCopy(f, "argCopy", "argument")
        f2 == LetFunction(f1, "sinNode", "Sin", "argCopy")
        f3 == LetConstant(f2, "minusOne", NumT(-1))
        f4 == LetMultiply(f3, "negNode", "minusOne", "sinNode")
        f5 == LetMultiply(f4, "result", "negNode", "argDeriv")
    IN  Return(f5, "result")

diffExp(f) ==
    LET f1 == LetCopy(f, "argCopy", "argument")
        f2 == LetFunction(f1, "expNode", "Exp", "argCopy")
        f3 == LetMultiply(f2, "result", "expNode", "argDeriv")
    IN  Return(f3, "result")

diffLn(f) ==
    LET f1 == LetConstant(f, "one", NumT(1))
        f2 == LetCopy(f1, "argCopy", "argument")
        f3 == LetDivide(f2, "reciprocal", "one", "argCopy")
        f4 == LetMultiply(f3, "result", "reciprocal", "argDeriv")
    IN  Return(f4, "result")

\* variant: the rules of Sin and Cos exchanged
FunctionNode_diff_exchanged(h, n, argDeriv) ==
    LET f == [h |-> h, err |-> "",
              loc |-> [argument |-> n.argument, argDeriv |-> argDeriv]]
    IN  CASE n.type = "Sin" -> diffCos(f)
          [] n.type = "Cos" -> diffSin(f)
          [] n.type = "Exp" -> diffExp(f)
          [] n.type = "Ln" -> diffLn(f)
          [] OTHER -> Raise(h, "Unsupported function for diff")

FunctionNode_diff(h, n, argDeriv) ==
    LET f == [h |-> h, err |-> "",
              loc |-> [argument |-> n.argument, argDeriv |-> argDeriv]]
    IN  CASE n.type = "Sin" -> diffSin(f)
          [] n.type = "Cos" -> diffCos(f)
          [] n.type = "Exp" -> diffExp(f)
          [] n.type = "Ln" -> diffLn(f)
          [] OTHER -> Raise(h, "Unsupported function for diff")

RECURSIVE diff(_, _, _)
diff(h, p, var) ==
    LET n == h[p] IN
    CASE n.type = "Constant" -> make_shared(h, ConstantNode(NumT(0)))
      [] n.type = "Variable" ->
           make_shared(h, ConstantNode(IF n.name = var THEN NumT(1) ELSE NumT(0)))
      [] n.type \in BinaryTypes ->
           LET leftDeriv == diff(h, n.leftOperand, var) IN
           IF leftDeriv.err # "" THEN leftDeriv
           ELSE LET rightDeriv == diff(leftDeriv.h, n.rightOperand, var) IN
                IF rightDeriv.err # "" THEN rightDeriv
                ELSE BinaryOperationNode_diff(rightDeriv.h, n, leftDeriv.p,
                                              rightDeriv.p)
      [] OTHER ->
           LET argDeriv == diff(h, n.argument, var) IN
           IF argDeriv.err # "" THEN argDeriv
           ELSE FunctionNode_diff(argDeriv.h, n, argDeriv.p)

(***************************************************************************)
(* class Expression: a value owning one root pointer.                      *)
(***************************************************************************)
Expression_value(h, val) == make_shared(h, ConstantNode(val))

Expression_variable(h, var) == make_shared(h, VariableNode(var))

\* Expression(const Expression&) and operator=(const Expression&)
Expression_copy(h, other) == copy(h, other)

\* variant: the operands attached without root->copy()
Expression_binary_shared(h, type, root, other) ==
    make_shared(h, BinaryOperationNode(type, root, other))

\* operator+ - * / ^
Expression_binary(h, type, root, other) ==
    LET l == copy(h, root)
        r == copy(l.h, other)
    IN  make_shared(r.h, BinaryOperationNode(type, l.p, r.p))

\* sin() cos() exp() ln()
Expression_function(h, type, root) ==
    LET a == copy(h, root)
    IN  make_shared(a.h, FunctionNode(type, a.p))

Expression_diff(h, root, var) == diff(h, root, var)

(***************************************************************************)
(* The parser.  Its state st is the heap, the three stacks (top = last     *)
(* element), the status and the what() of the exception thrown.  status    *)
(* "UB" marks undefined behaviour: top() or pop() of an empty std::stack.  *)
(***************************************************************************)
\* variant: one precedence for every operator
getPrecedence_flat(op) ==
    IF op \in {"+", "-", "*", "/", "^"} THEN 2 ELSE 0

getPrecedence(op) ==
    IF op = "^" THEN 4
    ELSE IF op = "*" \/ op = "/" THEN 3
    ELSE IF op = "+" \/ op = "-" THEN 2
    ELSE 0

isOperator(c) == c = "+" \/ c = "-" \/ c = "*" \/ c = "/" \/ c = "^"

isFunction(token) ==
    token \in {<<"s", "i", "n">>, <<"c", "o", "s">>, <<"e", "x", "p">>, <<"l", "n">>}

Top(stack) == stack[Len(stack)]
Pop(stack) == SubSeq(stack, 1, Len(stack) - 1)

ParserStart(h) ==
    [h |-> h, values |-> <<>>, operators |-> <<>>, functions |-> <<>>,
     status |-> "scanning", what |-> "", result |-> 0]

Fail(st, status, msg) == [st EXCEPT !.status = status, !.what = msg]

OperatorType(op) ==
    CASE op = "+" -> "Add"
      [] op = "-" -> "Subtract"
      [] op = "*" -> "Multiply"
      [] op = "/" -> "Divide"
      [] op = "^" -> "Power"
      [] OTHER -> "Invalid"

\* the lambda applyOperation; the caller has checked that operators is not empty
applyOperation(st) ==
    LET op == Top(st.operators)
        ops == Pop(st.operators)
    IN  IF Len(st.values) < 2
        THEN Fail([st EXCEPT !.operators = ops], "UB", "values.top() on an empty stack")
        ELSE LET right == Expression_copy(st.h, Top(st.values))
                 left == Expression_copy(right.h, Top(Pop(st.values)))
                 rest == Pop(Pop(st.values))
             IN  IF ~ isOperator(op)
                 THEN Fail([st EXCEPT !.h = left.h, !.operators = ops,
                                      !.values = rest],
                           "ParseError", "Invalid operator")
                 ELSE LET e == Expression_binary(left.h, OperatorType(op),
                                                 left.p, right.p)
                      IN  [st EXCEPT !.h = e.h, !.operators = ops,
                                     !.values = Append(rest, e.p)]

FunctionType(func) ==
    CASE func = <<"s", "i", "n">> -> "Sin"
      [] func = <<"c", "o", "s">> -> "Cos"
      [] func = <<"e", "x", "p">> -> "Exp"
      [] func = <<"l", "n">> -> "Ln"
      [] OTHER -> "Invalid"

\* the lambda applyFunction; the caller has checked that functions is not empty
applyFunction(st) ==
    LET func == Top(st.functions)
        fs == Pop(st.functions)
    IN  IF Len(st.values) < 1
        THEN Fail([st EXCEPT !.functions = fs], "UB", "values.top() on an empty stack")
        ELSE LET arg == Expression_copy(st.h, Top(st.values))
                 rest == Pop(st.values)
             IN  IF FunctionType(func) = "Invalid"
                 THEN Fail([st EXCEPT !.h = arg.h, !.functions = fs,
                                      !.values = rest],
                           "ParseError", "Invalid function")
                 ELSE LET e == Expression_function(arg.h, FunctionType(func), arg.p)
                      IN  [st EXCEPT !.h = e.h, !.functions = fs,
                                     !.values = Append(rest, e.p)]

\* the end of the run of characters satisfying inRun that starts at i
InRun(kind, c) ==
    CASE kind = "digit" -> isdigit(c)
      [] kind = "number" -> isdigit(c) \/ c = "."
      [] kind = "alpha" -> isalpha(c)

RECURSIVE RunEnd(_, _, _)
RunEnd(input, i, kind) ==
    IF i <= Len(input) /\ InRun(kind, input[i]) THEN RunEnd(input, i + 1, kind)
    ELSE i

RECURSIVE DigitsValue(_)
DigitsValue(ds) ==
    IF ds = <<>> THEN 0
    ELSE 10 * DigitsValue(Pop(ds)) + DigitVal(Top(ds))

RECURSIVE Pow10(_)
Pow10(k) == IF k = 0 THEN 1 ELSE 10 * Pow10(k - 1)

\* std::stold: the longest prefix digits [. digits]; no digit at all throws
\* std::invalid_argument
stold(number) ==
    LET e1 == RunEnd(number, 1, "digit")
        int == SubSeq(number, 1, e1 - 1)
        hasDot == e1 <= Len(number) /\ number[e1] = "."
        e2 == IF hasDot THEN RunEnd(number, e1 + 1, "digit") ELSE e1
        frac == IF hasDot THEN SubSeq(number, e1 + 1, e2 - 1) ELSE <<>>
    IN  IF Len(int) + Len(frac) = 0 THEN Throw("stold")
        ELSE Ok(RAdd(RInt(DigitsValue(int)),
                     Rat(DigitsValue(frac), Pow10(Len(frac)))))

\* a run of digits and dots: values.push(Expression<T>(stold(number)))
scanNumber(input, i, st) ==
    LET e == RunEnd(input, i, "number")
        r == stold(SubSeq(input, i, e - 1))
    IN  IF ~ r.ok THEN [st |-> Fail(st, "ParseError", r.err), i |-> e]
        ELSE LET x == Expression_value(st.h, Num(r.v, RInt(0)))
             IN  [st |-> [st EXCEPT !.h = x.h, !.values = Append(@, x.p)],
                  i |-> e]

\* a run of letters: a function name or a variable
scanIdentifier(input, i, st) ==
    LET e == RunEnd(input, i, "alpha")
        token == SubSeq(input, i, e - 1)
    IN  IF isFunction(token)
        THEN [st |-> [st EXCEPT !.functions = Append(@, token)], i |-> e]
        ELSE LET x == Expression_variable(st.h, token)
             IN  [st |-> [st EXCEPT !.h = x.h, !.values = Append(@, x.p)],
                  i |-> e]

scanOpenParen(st) == [st EXCEPT !.operators = Append(@, "(")]

RECURSIVE applyUntilParen(_)
applyUntilParen(st) ==
    IF st.status = "scanning" /\ st.operators # <<>> /\ Top(st.operators) # "("
    THEN applyUntilParen(applyOperation(st))
    ELSE st

\* variant: the pending function is left on its stack
scanCloseParen_noCall(st) ==
    LET a == applyUntilParen(st) IN
    IF a.status # "scanning" THEN a
    ELSE IF a.operators = <<>>
    THEN Fail(a, "UB", "operators.pop() on an empty stack")
    ELSE [a EXCEPT !.operators = Pop(@)]

scanCloseParen(st) ==
    LET a == applyUntilParen(st) IN
    IF a.status # "scanning" THEN a
    ELSE IF a.operators = <<>>
    THEN Fail(a, "UB", "operators.pop() on an empty stack")
    ELSE LET b == [a EXCEPT !.operators = Pop(@)]
         IN  IF b.functions # <<>> THEN applyFunction(b) ELSE b

RECURSIVE applyWhilePrecedence(_, _)
applyWhilePrecedence(st, current) ==
    IF /\ st.status = "scanning"
       /\ st.operators # <<>>
       /\ getPrecedence(Top(st.operators)) >= getPrecedence(current)
    THEN applyWhilePrecedence(applyOperation(st), current)
    ELSE st

\* variant: the operator pushed without applying the ones on the stack
scanOperator_push(current, st) ==
    [st EXCEPT !.operators = Append(@, current)]

scanOperator(current, st) ==
    LET a == applyWhilePrecedence(st, current) IN
    IF a.status # "scanning" THEN a
    ELSE [a EXCEPT !.operators = Append(@, current)]

RECURSIVE applyAll(_)
applyAll(st) ==
    IF st.status = "scanning" /\ st.operators # <<>>
    THEN applyAll(applyOperation(st))
    ELSE st

\* variant: any non-empty value stack accepted
finish_lax(st) ==
    LET a == applyAll(st) IN
    IF a.status # "scanning" THEN a
    ELSE IF Len(a.values) = 0 THEN Fail(a, "ParseError", "Invalid expression")
    ELSE LET r == Expression_copy(a.h, Top(a.values))
         IN  [a EXCEPT !.h = r.h, !.status = "returned", !.result = r.p]

\* after the scan: apply what is left, check the value stack, return values.top()
finish(st) ==
    LET a == applyAll(st) IN
    IF a.status # "scanning" THEN a
    ELSE IF Len(a.values) # 1 THEN Fail(a, "ParseError", "Invalid expression")
    ELSE LET r == Expression_copy(a.h, Top(a.values))
         IN  [a EXCEPT !.h = r.h, !.status = "returned", !.result = r.p]

\* one iteration of the for loop at position i (1-based), or the code after it
scanStep(input, i, st) ==
    IF i > Len(input) THEN [st |-> finish(st), i |-> i]
    ELSE LET current == input[i] IN
         IF isspace(current) THEN [st |-> st, i |-> i + 1]
         ELSE IF isdigit(current) \/ current = "." THEN scanNumber(input, i, st)
         ELSE IF isalpha(current) THEN scanIdentifier(input, i, st)
         ELSE IF current = "(" THEN [st |-> scanOpenParen(st), i |-> i + 1]
         ELSE IF current = ")" THEN [st |-> scanCloseParen(st), i |-> i + 1]
         ELSE IF isOperator(current)
         THEN [st |-> scanOperator(current, st), i |-> i + 1]
         ELSE [st |-> Fail(st, "ParseError", "Invalid character in input"),
               i |-> i]

RECURSIVE parseFrom(_, _, _)
parseFrom(input, i, st) ==
    IF st.status # "scanning" THEN st
    ELSE LET n == scanStep(input, i, st) IN parseFrom(input, n.i, n.st)

parseExpression(h, input) == parseFrom(input, 1, ParserStart(h))

(***************************************************************************)
(* The tree below a pointer, as a value: what two Expressions have in      *)
(* common when they are structurally equal.                                *)
(***************************************************************************)
RECURSIVE Tree(_, _)
Tree(h, p) ==
    LET n == h[p] IN
    CASE n.type = "Constant" -> <<"Constant", n.value>>
      [] n.type = "Variable" -> <<"Variable", n.name>>
      [] n.type \in BinaryTypes ->
           <<n.type, Tree(h, n.leftOperand), Tree(h, n.rightOperand)>>
      [] OTHER -> <<n.type, Tree(h, n.argument)>>

\* the nodes reachable from a pointer
RECURSIVE Reach(_, _)
Reach(h, p) ==
    LET n == h[p] IN
    CASE n.type \in {"Constant", "Variable"} -> {p}
      [] n.type \in BinaryTypes ->
           {p} \cup Reach(h, n.leftOperand) \cup Reach(h, n.rightOperand)
      [] OTHER -> {p} \cup Reach(h, n.argument)

(***************************************************************************)
(* Bounds and inputs.                                                      *)
(***************************************************************************)
MaxTokens == 4
MaxOps == 2
MaxVal == 2
MaxExprs == 3

RECURSIVE Flatten(_)
Flatten(ts) == IF ts = <<>> THEN <<>> ELSE Head(ts) \o Flatten(Tail(ts))

SeqsUpTo(S, n) == UNION {[1..k -> S] : k \in 0..n}

\* every text of at most MaxTokens tokens
Tokens ==
    {<<"1">>, <<"x">>, <<"+">>, <<"^">>, <<"(">>, <<")">>, <<" ">>,
     <<"l", "n">>, <<"$">>}

GeneralTexts == {Flatten(ts) : ts \in SeqsUpTo(Tokens, MaxTokens)}

\* operand (op operand)* with at most MaxOps operators; the k-th operand is
\* the k-th name
OperandNames == <<"a", "b", "c", "d", "e", "f">>
Operand(k) == <<OperandNames[((k - 1) % Len(OperandNames)) + 1]>>
OpChars == {"+", "-", "*", "/", "^"}

RECURSIVE PrecText(_)
PrecText(ops) ==
    IF ops = <<>> THEN Operand(1)
    ELSE PrecText(Pop(ops)) \o <<Top(ops)>> \o Operand(Len(ops) + 1)

PrecTexts == {PrecText(ops) : ops \in SeqsUpTo(OpChars, MaxOps)}

\* a function call whose argument is such a sequence
FunctionNames == {<<"s", "i", "n">>, <<"c", "o", "s">>, <<"e", "x", "p">>, <<"l", "n">>}
CallTexts == {f \o <<"(">> \o t \o <<")">> : f \in FunctionNames, t \in PrecTexts}

\* literals, and the texts of the tests
LiteralTexts ==
    {<<"0">>, <<"2", ".", "5">>, <<"1", "/", "0">>, <<"0", "*", "x">>,
     <<"0", ".", "0", "0", "0", "0", "0", "0", "1">>, <<".">>,
     <<"1", ".", "2", ".", "3">>, <<"1", ".">>, <<".", "5">>,
     <<"s", "i", "n", "(", "x", "*", "(", "y", "+", "1", ")", ")">>,
     <<"s", "i", "n", "(", "y", ")">>,
     <<"l", "n", "(", "0", ")">>, <<"l", "n", "(", "l", "n", "(", "a", ")", ")">>,
     <<"5", " ", "+", " ", "7">>, <<"y", " ", "+", " ", "4">>,
     <<"3", " ", "*", " ", "y", " ", "/", " ", "6">>}

\* texts that use the imaginary unit
ImaginaryTexts ==
    {<<"i">>, <<"i", "*", "i">>, <<"x", "+", "i">>, <<"l", "n", "(", "i", ")">>,
     <<"1", "/", "i">>}

\* "y ^ n" for the exponents 1..MaxPow
MaxPow == 3
ExponentChars == <<"1", "2", "3", "4", "5", "6", "7", "8", "9">>
PowerText(n) == <<"y", " ", "^", " ", ExponentChars[n]>>
PowerTexts == {PowerText(n) : n \in 1..MaxPow}

RealInputs ==
    GeneralTexts \cup PrecTexts \cup CallTexts \cup LiteralTexts \cup PowerTexts
ComplexInputs ==
    PrecTexts \cup CallTexts \cup LiteralTexts \cup ImaginaryTexts \cup PowerTexts

\* the binding maps used to evaluate
Vals == {NumT(k) : k \in 0..MaxVal}
Bindings ==
    [{<<"a">>, <<"b">>, <<"c">>} -> Vals]
        \cup [{<<"x">>, <<"y">>, <<"i">>} -> Vals]
        \cup {<<>>, (<<"a">> :> NumT(0))}

(***************************************************************************)
(* The program: parseExpression<T>(text) run one loop iteration at a time, *)
(* then on the Expression it returned either diff(var), or toString() and  *)
(* a second parse of that text (pass 2).                                   *)
(***************************************************************************)
VARIABLES T, text, input, i, heap, values, operators, functions, status, what,
          result, ub, pass, orig, deriv, diffVar, exprs

vars == <<T, text, input, i, heap, values, operators, functions, status, what,
          result, ub, pass, orig, deriv, diffVar, exprs>>

St ==
    [h |-> heap, values |-> values, operators |-> operators,
     functions |-> functions, status |-> status, what |-> what,
     result |-> result]

\* what a build can do once behaviour is undefined
UBOutcomes == {"crash", "ParseError", "returned"}

Commit(n) ==
    /\ i' = n.i
    /\ heap' = n.st.h
    /\ values' = n.st.values
    /\ operators' = n.st.operators
    /\ functions' = n.st.functions
    /\ what' = n.st.what
    /\ result' = n.st.result
    /\ IF n.st.status = "UB"
       THEN ub' = TRUE /\ status' \in UBOutcomes
       ELSE ub' = ub /\ status' = n.st.status
    /\ UNCHANGED <<T, text, input, pass, orig, deriv, diffVar, exprs>>

Init ==
    /\ \/ T = "Real" /\ text \in RealInputs
       \/ T = "Complex" /\ text \in ComplexInputs
    /\ input = text
    /\ i = 1
    /\ heap = <<>>
    /\ values = <<>>
    /\ operators = <<>>
    /\ functions = <<>>
    /\ status = "scanning"
    /\ what = ""
    /\ result = 0
    /\ ub = FALSE
    /\ pass = 1
    /\ orig = 0
    /\ deriv = 0
    /\ diffVar = <<>>
    /\ exprs = <<>>

Scanning == status = "scanning" /\ i <= Len(input)

ScanSpace ==
    /\ Scanning /\ isspace(input[i])
    /\ Commit(scanStep(input, i, St))

ScanNumber ==
    /\ Scanning /\ (isdigit(input[i]) \/ input[i] = ".")
    /\ Commit(scanNumber(input, i, St))

ScanIdentifier ==
    /\ Scanning /\ isalpha(input[i])
    /\ Commit(scanIdentifier(input, i, St))

ScanOpenParen ==
    /\ Scanning /\ input[i] = "("
    /\ Commit([st |-> scanOpenParen(St), i |-> i + 1])

ScanCloseParen ==
    /\ Scanning /\ input[i] = ")"
    /\ Commit([st |-> scanCloseParen(St), i |-> i + 1])

ScanOperator ==
    /\ Scanning /\ isOperator(input[i])
    /\ Commit([st |-> scanOperator(input[i], St), i |-> i + 1])

ScanInvalid ==
    /\ Scanning
    /\ ~ isspace(input[i]) /\ ~ isdigit(input[i]) /\ input[i] # "."
    /\ ~ isalpha(input[i]) /\ input[i] \notin {"(", ")"} /\ ~ isOperator(input[i])
    /\ Commit(scanStep(input, i, St))

Finish ==
    /\ status = "scanning" /\ i > Len(input)
    /\ Commit([st |-> finish(St), i |-> i])

DiffVars == {<<"a">>, <<"x">>, <<"y">>}

\* expr.diff(var) on the parsed expression
Differentiate ==
    /\ status = "returned" /\ ~ ub /\ pass = 1
    /\ \E var \in DiffVars :
         LET d == Expression_diff(heap, result, var) IN
         /\ heap' = d.h
         /\ deriv' = d.p
         /\ diffVar' = var
         /\ what' = d.err
         /\ status' = IF d.err = "" THEN "differentiated" ELSE "DiffError"
    /\ UNCHANGED <<T, text, input, i, values, operators, functions, result, ub,
                   pass, orig, exprs>>

\* parseExpression<T>(expr.toString())
Reparse ==
    /\ status = "returned" /\ ~ ub /\ pass = 1
    /\ input' = toString(T, heap, result)
    /\ orig' = result
    /\ pass' = 2
    /\ i' = 1
    /\ values' = <<>>
    /\ operators' = <<>>
    /\ functions' = <<>>
    /\ status' = "scanning"
    /\ what' = ""
    /\ result' = 0
    /\ UNCHANGED <<T, text, heap, ub, deriv, diffVar, exprs>>

Next ==
    \/ ScanSpace
    \/ ScanNumber
    \/ ScanIdentifier
    \/ ScanOpenParen
    \/ ScanCloseParen
    \/ ScanOperator
    \/ ScanInvalid
    \/ Finish
    \/ Differentiate
    \/ Reparse

Spec == Init /\ [][Next]_vars

\* the parse has ended without undefined behaviour
Ended == status \in {"returned", "ParseError"} /\ ~ ub

(***************************************************************************)
(* A client of class Expression: it holds the Expressions exprs and        *)
(* builds new ones with the public operations.                             *)
(***************************************************************************)
MaxNodes == 6

ClientTexts == {<<"x", "+", "1">>, <<"l", "n", "(", "x", ")">>}

InitExpr ==
    /\ T = "Real"
    /\ text = <<>>
    /\ input = <<>>
    /\ i = 1
    /\ heap = <<>>
    /\ values = <<>>
    /\ operators = <<>>
    /\ functions = <<>>
    /\ status = "client"
    /\ what = ""
    /\ result = 0
    /\ ub = FALSE
    /\ pass = 1
    /\ orig = 0
    /\ deriv = 0
    /\ diffVar = <<>>
    /\ exprs = <<>>

Room == Len(exprs) < MaxExprs /\ Len(heap) < MaxNodes

\* r is what an operation returned: the new Expression joins exprs
Keep(r) ==
    /\ heap' = r.h
    /\ what' = r.err
    /\ exprs' = IF r.err = "" THEN Append(exprs, r.p) ELSE exprs
    /\ UNCHANGED <<T, text, input, i, values, operators, functions, status,
                   result, ub, pass, orig, deriv, diffVar>>

NewConstant ==
    /\ Room
    /\ \E k \in 0..1 : Keep(Expression_value(heap, NumT(k)))

NewVariable ==
    /\ Room
    /\ Keep(Expression_variable(heap, <<"x">>))

CopyConstruct ==
    /\ Room
    /\ \E k \in 1..Len(exprs) : Keep(Expression_copy(heap, exprs[k]))

\* exprs[k] = exprs[j]
CopyAssign ==
    /\ Len(heap) < MaxNodes
    /\ \E k, j \in 1..Len(exprs) :
         LET r == Expression_copy(heap, exprs[j]) IN
         /\ heap' = r.h
         /\ exprs' = [exprs EXCEPT ![k] = r.p]
    /\ UNCHANGED <<T, text, input, i, values, operators, functions, status,
                   what, result, ub, pass, orig, deriv, diffVar>>

BinaryOperator ==
    /\ Room
    /\ \E type \in BinaryTypes, k, j \in 1..Len(exprs) :
         Keep(Expression_binary(heap, type, exprs[k], exprs[j]))

FunctionCall ==
    /\ Room
    /\ \E type \in FunctionTypes, k \in 1..Len(exprs) :
         Keep(Expression_function(heap, type, exprs[k]))

DiffCall ==
    /\ Room
    /\ \E k \in 1..Len(exprs) : Keep(Expression_diff(heap, exprs[k], <<"x">>))

ParseCall ==
    /\ Room
    /\ \E t \in ClientTexts :
         LET r == parseExpression(heap, t) IN
         Keep([h |-> r.h, p |-> r.result,
               err |-> IF r.status = "returned" THEN "" ELSE r.what])

NextExpr ==
    \/ NewConstant
    \/ NewVariable
    \/ CopyConstruct
    \/ CopyAssign
    \/ BinaryOperator
    \/ FunctionCall
    \/ DiffCall
    \/ ParseCall

SpecExpr == InitExpr /\ [][NextExpr]_vars

(***************************************************************************)
(* is_complex and ParseComplex: functions of a text.  Positions are        *)
(* 1-based; npos is 0.                                                     *)
(***************************************************************************)
\* the 'i' at pos touches a letter
is_part_of_other(s, pos) ==
    \/ pos > 1 /\ isalpha(s[pos - 1])
    \/ pos < Len(s) /\ isalpha(s[pos + 1])

left_valid(s, pos) ==
    \/ pos = 1
    \/ isspace(s[pos - 1])
    \/ isdigit(s[pos - 1])
    \/ s[pos - 1] = "-"
    \/ s[pos - 1] = "."

right_valid(s, pos) ==
    \/ pos = Len(s)
    \/ isspace(s[pos + 1])
    \/ isdigit(s[pos + 1])

\* the loop over every 'i' of s returns true at the first one that passes
is_complex(s) ==
    \E pos \in 1..Len(s) :
        /\ s[pos] = "i"
        /\ ~ is_part_of_other(s, pos)
        /\ left_valid(s, pos) /\ right_valid(s, pos)

\* s.find(c): the first position of c, or npos
find(s, c) ==
    IF \E k \in 1..Len(s) : s[k] = c
    THEN CHOOSE k \in 1..Len(s) : s[k] = c /\ \A m \in 1..(k - 1) : s[m] # c
    ELSE 0

\* variant: the first sign instead of the last
find_first_of_sign(s, pos) ==
    LET last == IF pos = 0 THEN Len(s) ELSE pos
        signs == {k \in 1..last : s[k] \in {"+", "-"}}
    IN  IF signs = {} THEN 0 ELSE CHOOSE k \in signs : \A m \in signs : k <= m

\* s.find_last_of("+-", pos): the last sign at or before pos; a pos of npos
\* (i_pos - 1 when the text starts with 'i') searches the whole text
find_last_of_sign(s, pos) ==
    LET last == IF pos = 0 THEN Len(s) ELSE pos
        signs == {k \in 1..last : s[k] \in {"+", "-"}}
    IN  IF signs = {} THEN 0 ELSE CHOOSE k \in signs : \A m \in signs : m <= k

RECURSIVE SkipSpace(_)
SkipSpace(s) ==
    IF s # <<>> /\ isspace(Head(s)) THEN SkipSpace(Tail(s)) ELSE s

\* std::stod: leading whitespace, an optional sign, then the longest prefix
\* digits [. digits]; std::invalid_argument when there is no digit
stod(str) ==
    LET t == SkipSpace(str)
        signed == t # <<>> /\ Head(t) \in {"+", "-"}
        r == stold(IF signed THEN Tail(t) ELSE t)
    IN  IF ~ r.ok THEN Throw("stod")
        ELSE IF signed /\ Head(t) = "-" THEN Ok(RSub(RInt(0), r.v))
        ELSE r

\* s.substr(pos, n) with pos 0-based, as the code calls it
substr(s, pos, n) == SubSeq(s, pos + 1, pos + n)

ParseComplex(s) ==
    LET i_pos == find(s, "i") IN
    IF i_pos = 0
    THEN LET r == stod(s) IN IF r.ok THEN Ok(Num(r.v, RInt(0))) ELSE r
    ELSE LET sign_pos == find_last_of_sign(s, i_pos - 1)
             real_part == IF sign_pos = 0 THEN <<>>
                          ELSE substr(s, 0, sign_pos - 1)
             imag_part == IF sign_pos = 0 THEN substr(s, 0, i_pos - 1)
                          ELSE IF sign_pos < i_pos
                               THEN substr(s, sign_pos - 1, i_pos - sign_pos)
                               ELSE SubSeq(s, sign_pos, Len(s))
             real == IF real_part = <<>> THEN Ok(RInt(0)) ELSE stod(real_part)
             imag == IF imag_part = <<>> \/ imag_part = <<"+">> THEN Ok(RInt(1))
                     ELSE IF imag_part = <<"-">> THEN Ok(RSub(RInt(0), RInt(1)))
                     ELSE stod(imag_part)
         IN  IF ~ real.ok THEN real
             ELSE IF ~ imag.ok THEN imag
             ELSE Ok(Num(real.v, imag.v))

(***************************************************************************)
(* A caller that classifies a text with is_complex, or reads it with       *)
(* ParseComplex.                                                           *)
(***************************************************************************)
MaxChars == 3

TextChars == {"i", "x", "1", " ", "-", "+", ".", "("}

DomainTexts == SeqsUpTo(TextChars, MaxChars)

\* decimal texts with their values
Decimals ==
    {[t |-> <<Digits[k + 1]>>, v |-> RInt(k)] : k \in 0..MaxVal}
        \cup {[t |-> <<Digits[k + 1], ".", "5">>, v |-> Rat(2 * k + 1, 2)] :
                k \in 0..MaxVal}

Negative(d) == [t |-> <<"-">> \o d.t, v |-> RSub(RInt(0), d.v)]

\* the real part of a literal, with its value: absent, or a signed decimal
RealParts ==
    {[t |-> <<>>, v |-> RInt(0)]} \cup Decimals \cup {Negative(d) : d \in Decimals}

\* the imaginary coefficient, with its value: absent, or a decimal
ImagParts == {[t |-> <<>>, v |-> RInt(1)]} \cup Decimals

Signs == {<<>>, <<"+">>, <<"-">>}

\* [real][+|-][imag]i; a literal with a real part has the sign
Literal(r, sg, m) == r.t \o sg \o m.t \o <<"i">>

ComplexLiterals ==
    {Literal(r, sg, m) : r \in RealParts, sg \in Signs, m \in ImagParts}
        \cup {r.t : r \in RealParts}

InitText ==
    /\ T = "Real"
    /\ text \in DomainTexts \cup ComplexLiterals
    /\ input = text
    /\ i = 1
    /\ heap = <<>>
    /\ values = <<>>
    /\ operators = <<>>
    /\ functions = <<>>
    /\ status = "text"
    /\ what = ""
    /\ result = 0
    /\ ub = FALSE
    /\ pass = 1
    /\ orig = 0
    /\ deriv = 0
    /\ diffVar = <<>>
    /\ exprs = <<>>

\* is_complex(text) chooses the domain
DetectDomain ==
    /\ status = "text"
    /\ status' = "detected"
    /\ T' = IF is_complex(text) THEN "Complex" ELSE "Real"
    /\ UNCHANGED <<text, input, i, heap, values, operators, functions, what,
                   result, ub, pass, orig, deriv, diffVar, exprs>>

\* ParseComplex(text)
ParseLiteral ==
    /\ status = "text"
    /\ LET r == ParseComplex(text) IN
       /\ status' = IF r.ok THEN "parsed" ELSE "threw"
       /\ what' = IF r.ok THEN "" ELSE r.err
       /\ result' = IF r.ok THEN r.v ELSE 0
    /\ UNCHANGED <<T, text, input, i, heap, values, operators, functions, ub,
                   pass, orig, deriv, diffVar, exprs>>

NextText ==
    \/ DetectDomain
    \/ ParseLiteral

SpecText == InitText /\ [][NextText]_vars

(***************************************************************************)
(* A caller of the simplify functions: two operand trees are built, then   *)
(* one of simplifyAdd, simplifyMultiply, simplifyDivide, simplifyPower is  *)
(* applied to them.  The operands are the two entries of values, the       *)
(* operator applied is the entry of operators.                             *)
(***************************************************************************)
\* the nodes of a tree, children first
RECURSIVE Build(_, _)
Build(h, t) ==
    CASE t[1] = "Constant" -> make_shared(h, ConstantNode(t[2]))
      [] t[1] = "Variable" -> make_shared(h, VariableNode(t[2]))
      [] t[1] \in BinaryTypes ->
           LET l == Build(h, t[2]) IN
           LET r == Build(l.h, t[3]) IN
           make_shared(r.h, BinaryOperationNode(t[1], l.p, r.p))
      [] OTHER ->
           LET a == Build(h, t[2]) IN
           make_shared(a.h, FunctionNode(t[1], a.p))

\* constants -1..MaxVal and the variable x; one operation over them
LeafTrees ==
    {<<"Constant", NumT(k)>> : k \in -1..MaxVal} \cup {<<"Variable", <<"x">>>>}

OperandTrees ==
    LeafTrees \cup {<<type, l, r>> : type \in BinaryTypes, l, r \in LeafTrees}

InitSimplify ==
    /\ T = "Real"
    /\ text = <<>>
    /\ input = <<>>
    /\ i = 1
    /\ \E l, r \in OperandTrees :
         LET a == Build(<<>>, l) IN
         LET b == Build(a.h, r) IN
         heap = b.h /\ values = <<a.p, b.p>>
    /\ operators = <<>>
    /\ functions = <<>>
    /\ status = "operands"
    /\ what = ""
    /\ result = 0
    /\ ub = FALSE
    /\ pass = 1
    /\ orig = 0
    /\ deriv = 0
    /\ diffVar = <<>>
    /\ exprs = <<>>

\* r is what the simplify function of operator op returned
Simplified(op, r) ==
    /\ status = "operands"
    /\ heap' = r.h
    /\ result' = r.p
    /\ what' = r.err
    /\ operators' = <<op>>
    /\ status' = IF r.err = "" THEN "simplified" ELSE "SimplifyError"
    /\ UNCHANGED <<T, text, input, i, values, functions, ub, pass, orig, deriv,
                   diffVar, exprs>>

SimplifyAddCall == Simplified("+", simplifyAdd(heap, values[1], values[2]))

SimplifyMultiplyCall ==
    Simplified("*", simplifyMultiply(heap, values[1], values[2]))

SimplifyDivideCall ==
    Simplified("/", simplifyDivide(heap, values[1], values[2]))

SimplifyPowerCall ==
    Simplified("^", simplifyPower(heap, values[1], values[2]))

NextSimplify ==
    \/ SimplifyAddCall
    \/ SimplifyMultiplyCall
    \/ SimplifyDivideCall
    \/ SimplifyPowerCall

SpecSimplify == InitSimplify /\ [][NextSimplify]_vars

(***************************************************************************)
(* A caller of diff: an Expression is built from a tree, then              *)
(* differentiated.                                                         *)
(***************************************************************************)
\* constants -1..MaxVal and the variables x, y
DiffLeaves ==
    {<<"Constant", NumT(k)>> : k \in -1..MaxVal}
        \cup {<<"Variable", <<"x">>>>, <<"Variable", <<"y">>>>}

\* one operation or function over the leaves
DiffInner ==
    DiffLeaves
        \cup {<<type, l, r>> : type \in BinaryTypes, l, r \in DiffLeaves}
        \cup {<<type, l>> : type \in FunctionTypes, l \in DiffLeaves}

\* a second operation or function over those
DiffTrees ==
    DiffInner
        \cup {<<type, l, r>> : type \in BinaryTypes, l \in DiffInner, r \in DiffLeaves}
        \cup {<<type, l, r>> : type \in BinaryTypes, l \in DiffLeaves, r \in DiffInner}
        \cup {<<type, l>> : type \in FunctionTypes, l \in DiffInner}

InitDiff ==
    /\ T \in {"Real", "Complex"}
    /\ text = <<>>
    /\ input = <<>>
    /\ i = 1
    /\ \E t \in DiffTrees :
         LET e == Build(<<>>, t) IN heap = e.h /\ result = e.p
    /\ values = <<>>
    /\ operators = <<>>
    /\ functions = <<>>
    /\ status = "returned"
    /\ what = ""
    /\ ub = FALSE
    /\ pass = 1
    /\ orig = 0
    /\ deriv = 0
    /\ diffVar = <<>>
    /\ exprs = <<>>

NextDiff == Differentiate

SpecDiff == InitDiff /\ [][NextDiff]_vars

(***************************************************************************)
(* The claims.                                                             *)
(***************************************************************************)

\* C1 (for the calls the claim names, in the real domain): a text that parses,
\* turned to text with toString and parsed again, parses, and the second
\* Expression evaluates like the first under every binding map.
RoundTripOfCalls ==
    (pass = 2 /\ Ended /\ T = "Real" /\ text \in CallTexts) =>
        /\ status = "returned"
        /\ \A b \in Bindings :
             eval(T, heap, result, b) = eval(T, heap, orig, b)

\* C2: diff raises no error, whatever the tree and the variable.
DiffNeverFails == status # "DiffError"

\* C3: no node is reachable from two distinct live Expressions.
NoSharing ==
    \A k, j \in 1..Len(exprs) :
        k # j => Reach(heap, exprs[k]) \cap Reach(heap, exprs[j]) = {}

\* C3 witness: a product, one of its operands and its derivative are live
\* together
NoSharingWitness ==
    \E k, j, m \in 1..Len(exprs) :
        /\ k # j /\ j # m /\ k # m
        /\ heap[exprs[j]].type = "Multiply"
        /\ Tree(heap, heap[exprs[j]].leftOperand) = Tree(heap, exprs[k])
        /\ LET d == Expression_diff(heap, exprs[j], <<"x">>)
           IN  d.err = "" /\ Tree(d.h, d.p) = Tree(heap, exprs[m])
        /\ Tree(heap, exprs[m]) # Tree(heap, exprs[k])

\* the tree of a one-character operand
Leaf(c) ==
    IF isdigit(c) THEN <<"Constant", NumT(DigitVal(c))>>
    ELSE <<"Variable", <<c>>>>

IsOperandChar(c) == isdigit(c) \/ isalpha(c)

\* pass 1 has returned an Expression
Parsed == status = "returned" /\ ~ ub /\ pass = 1

\* C4: a text operand ^ operand ^ operand parses to Power(Power(a, b), c).
PowerLeftAssociative ==
    ( /\ Parsed
      /\ Len(text) = 5
      /\ text[2] = "^" /\ text[4] = "^"
      /\ \A k \in {1, 3, 5} : IsOperandChar(text[k]) )
    => Tree(heap, result) =
         <<"Power", <<"Power", Leaf(text[1]), Leaf(text[3])>>, Leaf(text[5])>>

\* C4 witness: "a^b^c" has been parsed
PowerLeftAssociativeWitness ==
    Parsed /\ text = <<"a", "^", "b", "^", "c">>

\* the precedence table of the claim: ^ over * / over + -
Level(op) == IF op = "^" THEN 3 ELSE IF op \in {"*", "/"} THEN 2 ELSE 1

\* operand (op operand)* of one-character operands
IsOperandSeq(t) ==
    /\ Len(t) % 2 = 1
    /\ \A k \in 1..Len(t) :
         IF k % 2 = 1 THEN IsOperandChar(t[k]) ELSE t[k] \in OpChars

\* where the tree of t splits: the last operator of the lowest level
SplitAt(t) ==
    LET ops == {k \in 1..Len(t) : k % 2 = 0}
        low == {k \in ops : \A m \in ops : Level(t[k]) <= Level(t[m])}
    IN  CHOOSE k \in low : \A m \in low : m <= k

RECURSIVE PrecedenceTree(_)
PrecedenceTree(t) ==
    IF Len(t) = 1 THEN Leaf(t[1])
    ELSE LET k == SplitAt(t)
         IN  <<OperatorType(t[k]), PrecedenceTree(SubSeq(t, 1, k - 1)),
               PrecedenceTree(SubSeq(t, k + 1, Len(t)))>>

\* C5: a sequence operand (op operand)* parses to the tree of the precedence
\* table, equal levels grouped left to right, operands in textual order;
\* "3 * y / 6" parses to Divide(Multiply(3, y), 6).
ParsesByPrecedence ==
    /\ (Parsed /\ IsOperandSeq(text)) =>
           Tree(heap, result) = PrecedenceTree(text)
    /\ (Parsed /\ text = <<"3", " ", "*", " ", "y", " ", "/", " ", "6">>) =>
           Tree(heap, result) =
             <<"Divide", <<"Multiply", Leaf("3"), Leaf("y")>>, Leaf("6")>>
    /\ (pass = 1 /\ IsOperandSeq(text) /\ status # "scanning") =>
           status \in {"returned", "differentiated", "DiffError"}

\* C5 witness: "a-b*c" has been parsed
ParsesByPrecedenceWitness ==
    Parsed /\ text = <<"a", "-", "b", "*", "c">>

\* the depth of parentheses after t, or -1 once a ")" closes nothing
RECURSIVE DepthAfter(_)
DepthAfter(t) ==
    IF t = <<>> THEN 0
    ELSE LET d == DepthAfter(Pop(t)) IN
         IF d < 0 THEN d
         ELSE IF Top(t) = "(" THEN d + 1
         ELSE IF Top(t) = ")" THEN d - 1
         ELSE d

\* C6: a text with an unmatched parenthesis ends in ParseError, and no empty
\* stack is popped.
UnmatchedParenthesesFail ==
    (pass = 1 /\ status # "scanning" /\ DepthAfter(text) # 0) =>
        status = "ParseError" /\ ~ ub

\* C7: when the scan is over and the remaining operators have been applied,
\* the parse returns exactly if one value is on the stack, and it returns
\* that value; with none or several it fails with "Invalid expression".
ExactlyOneValue ==
    [][ (status = "scanning" /\ i > Len(input) /\ status' # "scanning") =>
          LET a == applyAll(St) IN
          a.status = "scanning" =>
              IF Len(a.values) = 1
              THEN /\ status' = "returned"
                   /\ Tree(heap', result') = Tree(a.h, Top(a.values))
              ELSE /\ status' = "ParseError"
                   /\ what' = "Invalid expression" ]_vars

\* C7 witness: the parse of "1 1" has failed with two values on the stack
ExactlyOneValueWitness ==
    /\ text = <<"1", " ", "1">>
    /\ status = "ParseError" /\ what = "Invalid expression"
    /\ Len(values) = 2 /\ operators = <<>> /\ ~ ub

\* C8: a Divide node whose children evaluate raises "Division by zero" exactly
\* if the right value is zero, and otherwise yields the quotient; the error
\* of a child that fails is passed on.
DivideEval ==
    Parsed =>
      \A p \in Reach(heap, result) : heap[p].type = "Divide" =>
        \A b \in Bindings :
          LET l == eval(T, heap, heap[p].leftOperand, b)
              r == eval(T, heap, heap[p].rightOperand, b)
              e == eval(T, heap, p, b)
          IN  IF ~ l.ok THEN e = l
              ELSE IF ~ r.ok THEN e = r
              ELSE (IsNum(l.v) /\ IsNum(r.v)) =>
                     IF r.v = NumT(0) THEN e = Throw("Division by zero")
                     ELSE e.ok /\ IsNum(e.v) /\ VMul(e.v, r.v) = l.v

\* C8 witness: "a/b" has been parsed (b is bound to zero and to other values)
DivideEvalWitness ==
    /\ Parsed /\ text = <<"a", "/", "b">>
    /\ \E b \in Bindings : eval(T, heap, result, b) = Throw("Division by zero")
    /\ \E b \in Bindings : eval(T, heap, result, b) = Ok(NumT(2))

\* a name that evaluates without the binding map
IsImaginaryUnit(name) == T = "Complex" /\ name = <<"i">>

\* C9: a Variable node evaluates to the value bound to its name and fails
\* when the name is unbound, so that an expression with an unbound variable
\* fails; "i" in the complex domain is (0,1) whatever the map says.
VariableEval ==
    Parsed =>
      \A b \in Bindings :
        LET vs == {p \in Reach(heap, result) : heap[p].type = "Variable"} IN
        /\ \A p \in vs :
             eval(T, heap, p, b) =
               IF IsImaginaryUnit(heap[p].name) THEN Ok(Num(RInt(0), RInt(1)))
               ELSE IF heap[p].name \in DOMAIN b THEN Ok(b[heap[p].name])
               ELSE Throw("Variable not found")
        /\ (\E p \in vs : /\ ~ IsImaginaryUnit(heap[p].name)
                          /\ heap[p].name \notin DOMAIN b)
             => ~ eval(T, heap, result, b).ok

\* C9 witness: "x+i" has been parsed in the complex domain
VariableEvalWitness ==
    /\ Parsed /\ T = "Complex" /\ text = <<"x", "+", "i">>
    /\ \E b \in Bindings : <<"i">> \in DOMAIN b /\ eval(T, heap, result, b).ok
    /\ \E b \in Bindings : ~ eval(T, heap, result, b).ok

\* C10: in the real domain an Ln node whose argument evaluates raises
\* "Ln domain error" exactly if the argument is <= 0; in the complex domain
\* it raises no domain error.
LnEval ==
    Parsed =>
      \A p \in Reach(heap, result) : heap[p].type = "Ln" =>
        \A b \in Bindings :
          LET a == eval(T, heap, heap[p].argument, b)
              e == eval(T, heap, p, b)
          IN  (a.ok /\ IsNum(a.v)) =>
                IF T = "Real"
                THEN (e = Throw("Ln domain error")) <=> RLeq(a.v.re, RInt(0))
                ELSE e.ok

\* C10 witness: "ln(a)" has been parsed in the real domain (a is bound to
\* zero and to positive values)
LnEvalWitness ==
    /\ Parsed /\ T = "Real" /\ text = <<"l", "n", "(", "a", ")">>
    /\ \E b \in Bindings : eval(T, heap, result, b) = Throw("Ln domain error")
    /\ \E b \in Bindings : eval(T, heap, result, b).ok

\* C11: the derivative of "y ^ n" by y evaluates to n * v^(n-1) at every
\* real value v of y, zero included.
PowerRuleValue ==
    \A n \in 1..MaxPow :
        ( /\ status = "differentiated"
          /\ T = "Real"
          /\ text = PowerText(n)
          /\ diffVar = <<"y">> )
        => \A v \in Vals :
             eval(T, heap, deriv, <<"y">> :> v) =
               Ok(VMul(NumT(n), IntPow(v, n - 1)))

\* the rule applied to what an operation returned, [h, p, err]
TimesDeriv(a, argDeriv) ==
    IF a.err # "" THEN a ELSE simplifyMultiply(a.h, a.p, argDeriv)

FunctionOf(type, a) == make_shared(a.h, FunctionNode(type, a.p))

Negated(a) ==
    LET m == make_shared(a.h, ConstantNode(NumT(-1)))
    IN  simplifyMultiply(m.h, m.p, a.p)

Reciprocal(a) ==
    LET one == make_shared(a.h, ConstantNode(NumT(1)))
    IN  simplifyDivide(one.h, one.p, a.p)

\* the chain rule of the Function node p, as the claim writes it
ChainRule(h, p, var) ==
    LET d == diff(h, h[p].argument, var) IN
    IF d.err # "" THEN d
    ELSE CASE h[p].type = "Sin" ->
                TimesDeriv(FunctionOf("Cos", copy(d.h, h[p].argument)), d.p)
           [] h[p].type = "Cos" ->
                TimesDeriv(Negated(FunctionOf("Sin", copy(d.h, h[p].argument))), d.p)
           [] h[p].type = "Exp" ->
                TimesDeriv(FunctionOf("Exp", copy(d.h, h[p].argument)), d.p)
           [] h[p].type = "Ln" ->
                TimesDeriv(Reciprocal(copy(d.h, h[p].argument)), d.p)

\* two results of an operation are the same error or the same tree
SameResult(a, b) ==
    /\ a.err = b.err
    /\ a.err = "" => Tree(a.h, a.p) = Tree(b.h, b.p)

\* the derivative of f(var) by var, as the claim lists it
DerivativeOfCall(type, var) ==
    LET y == <<"Variable", var>> IN
    CASE type = "Sin" -> <<"Cos", y>>
      [] type = "Cos" -> <<"Multiply", <<"Constant", NumT(-1)>>, <<"Sin", y>>>>
      [] type = "Exp" -> <<"Exp", y>>
      [] type = "Ln" -> <<"Divide", <<"Constant", NumT(1)>>, y>>

\* C12: the derivative of every Function node is its chain rule, and the
\* derivative of f(var) by var is Cos(var), Multiply(Constant(-1), Sin(var)),
\* Exp(var), Divide(Constant(1), var).
ChainRules ==
    status \in {"differentiated", "DiffError"} =>
      \A p \in Reach(heap, result) : heap[p].type \in FunctionTypes =>
        /\ SameResult(diff(heap, p, diffVar), ChainRule(heap, p, diffVar))
        /\ heap[heap[p].argument] = VariableNode(diffVar) =>
             LET d == diff(heap, p, diffVar)
             IN  /\ d.err = ""
                 /\ Tree(d.h, d.p) = DerivativeOfCall(heap[p].type, diffVar)

\* C12 witness: "cos(a)" has been differentiated by a
ChainRulesWitness ==
    /\ status = "differentiated"
    /\ text = <<"c", "o", "s", "(", "a", ")">>
    /\ diffVar = <<"a">>
    /\ Tree(heap, deriv) = DerivativeOfCall("Cos", <<"a">>)

\* a boundary of the claim, the same on both sides
Boundary(c) == isspace(c) \/ isdigit(c) \/ c = "-" \/ c = "."

\* some 'i' of t has a boundary or the end of the text on each side
HasFreeI(t) ==
    \E k \in 1..Len(t) :
        /\ t[k] = "i"
        /\ k = 1 \/ Boundary(t[k - 1])
        /\ k = Len(t) \/ Boundary(t[k + 1])

\* C13: is_complex answers Complex exactly for the texts with an 'i' that has
\* a boundary (start or end, whitespace, a digit, '-' or '.') on each side.
DetectsFreeI ==
    status = "detected" => (T = "Complex" <=> HasFreeI(text))

\* the sign of a literal as a factor
SignFactor(sg) == IF sg = <<"-">> THEN RSub(RInt(0), RInt(1)) ELSE RInt(1)

\* C14: a literal [real][+|-][imag]i reads as (real, signed imag), a missing
\* real part as 0 and a missing coefficient as 1; a text without 'i' reads
\* as (value, 0).
ReadsComplexLiteral ==
    /\ \A r \in RealParts, sg \in Signs, m \in ImagParts :
         ( /\ status \in {"parsed", "threw"}
           /\ text = Literal(r, sg, m)
           /\ r.t # <<>> => sg # <<>> )
         => /\ status = "parsed"
            /\ result = Num(r.v, RMul(SignFactor(sg), m.v))
    /\ \A r \in RealParts :
         (status \in {"parsed", "threw"} /\ text = r.t /\ r.t # <<>>)
         => status = "parsed" /\ result = Num(r.v, RInt(0))

\* C14 witness: "-1-2.5i" has been read
ReadsComplexLiteralWitness ==
    /\ status = "parsed"
    /\ text = <<"-", "1", "-", "2", ".", "5", "i">>
    /\ result = Num(RInt(-1), Rat(-5, 2))

\* the simplify function of an operator
SimplifyBy(op, h, left, right) ==
    CASE op = "+" -> simplifyAdd(h, left, right)
      [] op = "*" -> simplifyMultiply(h, left, right)
      [] op = "/" -> simplifyDivide(h, left, right)
      [] op = "^" -> simplifyPower(h, left, right)

\* C15: when a simplify function returns a BinaryOperation node of its own
\* operator, the function applied to the children of that node returns a
\* node of the same shape.
SimplifyIdempotent ==
    ( /\ status = "simplified"
      /\ heap[result].type = OperatorType(operators[1]) )
    => LET again == SimplifyBy(operators[1], heap, heap[result].leftOperand,
                               heap[result].rightOperand)
       IN  /\ again.err = ""
           /\ Tree(again.h, again.p) = Tree(heap, result)

\* the text is one run of digits and dots
IsNumberRun(t) == t # <<>> /\ \A k \in 1..Len(t) : isdigit(t[k]) \/ t[k] = "."

Dots(t) == {k \in 1..Len(t) : t[k] = "."}

\* the value of a run with at most one dot: its digits, scaled by the number
\* of digits after the dot
DecimalValue(t) ==
    LET digits == SelectSeq(t, LAMBDA c : isdigit(c))
        after == IF Dots(t) = {} THEN 0 ELSE Len(t) - (CHOOSE k \in Dots(t) : TRUE)
    IN  Num(Rat(DigitsValue(digits), Pow10(after)), RInt(0))

\* C16: a text that is one run of digits and dots is accepted only with at
\* most one dot, and then as the Constant of exactly its value.
NumericLiteral ==
    (Parsed /\ IsNumberRun(text)) =>
        /\ Cardinality(Dots(text)) <= 1
        /\ Tree(heap, result) = <<"Constant", DecimalValue(text)>>

\* the position of the nearest "(" marker on the operator stack
NearestMarker(ops) ==
    CHOOSE k \in 1..Len(ops) :
        ops[k] = "(" /\ \A m \in (k + 1)..Len(ops) : ops[m] # "("

\* a step over ')' that neither fails nor is undefined
ClosesGroup ==
    /\ status = "scanning" /\ i <= Len(input) /\ input[i] = ")"
    /\ status' = "scanning" /\ ~ ub'

\* what such a step does to the three stacks
AppliesPendingFunction ==
    LET k == NearestMarker(operators) IN
    /\ operators' = SubSeq(operators, 1, k - 1)
    /\ Len(values') = Len(values) - (Len(operators) - k)
    /\ IF functions = <<>> THEN functions' = <<>>
       ELSE /\ functions' = Pop(functions)
            /\ heap'[Top(values')].type = FunctionType(Top(functions))

\* the text is f(arg) with arg a sequence operand (op operand)*
IsSimpleCall(t, f) ==
    /\ Len(t) > Len(f) + 2
    /\ SubSeq(t, 1, Len(f)) = f
    /\ t[Len(f) + 1] = "(" /\ t[Len(t)] = ")"
    /\ IsOperandSeq(SubSeq(t, Len(f) + 2, Len(t) - 1))

\* what the parse of a call returns
CallTrees ==
    /\ \A f \in FunctionNames :
         (Parsed /\ IsSimpleCall(text, f)) =>
             Tree(heap, result) =
               <<FunctionType(f),
                 PrecedenceTree(SubSeq(text, Len(f) + 2, Len(text) - 1))>>
    /\ (Parsed /\ text = <<"s", "i", "n", "(", "x", "*", "(", "y", "+", "1",
                           ")", ")">>) =>
             Tree(heap, result) =
               <<"Multiply", Leaf("x"), <<"Sin", <<"Add", Leaf("y"), Leaf("1")>>>>>>

\* C17: a ')' applies the operators down to the nearest '(' and discards it,
\* then wraps the top value in the Function node of the one pending function
\* name, if there is one; f(arg) with arg free of parentheses parses to
\* Function(f, arg), and in "sin(x*(y+1))" the inner group takes the function.
FunctionAppliedAtClose ==
    [][ (ClosesGroup => AppliesPendingFunction) /\ CallTrees' ]_vars

\* C17 witness: the inner ')' of "sin(x*(y+1))" has wrapped y+1 in Sin
FunctionAppliedAtCloseWitness ==
    /\ text = <<"s", "i", "n", "(", "x", "*", "(", "y", "+", "1", ")", ")">>
    /\ pass = 1 /\ status = "scanning" /\ ~ ub
    /\ functions = <<>>
    /\ operators = <<"(", "*">>
    /\ Len(values) = 2
    /\ Tree(heap, Top(values)) = <<"Sin", <<"Add", Leaf("y"), Leaf("1")>>>>

\* C18: on a text whose parentheses match, no operator is applied with
\* fewer than two values and no function with none: the value stack is never
\* read or popped empty, and the parse ends in ParseError or returns.
ValueStackSafe ==
    (DepthAfter(text) = 0 /\ pass = 1) =>
        /\ what # "values.top() on an empty stack"
        /\ ~ ub

\* C19: when the parse returns, the function-name stack is empty.
NoFunctionDropped ==
    Parsed => functions = <<>>

\* the binding maps for the operand trees
OperandBindings == {<<>>} \cup {(<<"x">> :> v) : v \in Vals}

\* eval of BinaryOperation(op, left, right) over the two operands, unsimplified
UnsimplifiedEval(b) ==
    LET n == make_shared(heap, BinaryOperationNode(OperatorType(operators[1]),
                                                   values[1], values[2]))
    IN  eval(T, n.h, n.p, b)

\* C20: where BinaryOperation(op, l, r) evaluates, the node returned by the
\* simplify function of op evaluates to the same value; and the simplify
\* function raises an error only if BinaryOperation(op, l, r) evaluates
\* under no binding.
SimplifyPreservesValue ==
    /\ status = "simplified" =>
         \A b \in OperandBindings :
             UnsimplifiedEval(b).ok => eval(T, heap, result, b) = UnsimplifiedEval(b)
    /\ status = "SimplifyError" =>
         \A b \in OperandBindings : ~ UnsimplifiedEval(b).ok

\* no Variable node named var is reachable from p
VarFree(h, p, var) ==
    \A q \in Reach(h, p) : h[q].type = "Variable" => h[q].name # var

\* no Ln node reachable from p has a Constant zero as its argument
NoLnOfZero(h, p) ==
    \A q \in Reach(h, p) :
        h[q].type = "Ln" => h[h[q].argument] # ConstantNode(NumT(0))

\* C21: the derivative of a tree without the variable of differentiation, and
\* without Ln of Constant zero, is the single node Constant zero.
VarFreeDerivativeIsZero ==
    ( /\ status \in {"differentiated", "DiffError"}
      /\ VarFree(heap, result, diffVar)
      /\ NoLnOfZero(heap, result) )
    => /\ status = "differentiated"
       /\ heap[deriv] = ConstantNode(NumT(0))

\* C21 witness: ln(y^2) has been differentiated by x
VarFreeDerivativeIsZeroWitness ==
    /\ status = "differentiated"
    /\ diffVar = <<"x">>
    /\ Tree(heap, result) =
         <<"Ln", <<"Power", <<"Variable", <<"y">>>>, <<"Constant", NumT(2)>>>>>>
    /\ heap[deriv] = ConstantNode(NumT(0))

====
